---- MODULE Spec2Model ----
(***************************************************************************)
(* Model of sonora's BasicMusicPlayer (src/src/core/playback/               *)
(* BasicMusicPlayer.cpp): the caller thread issuing the public operations   *)
(* and the playback worker threads started by play().  Every thread has a   *)
(* call stack of frames [fn, pc, uri, n]; pc is the source line the frame   *)
(* is about to execute, so the same code of play/stop/next is run by the    *)
(* caller and by a worker that handles a completed track.                   *)
(*                                                                          *)
(* Time is counted in ticks of Duration seconds.  The worker sleeps 100 ms   *)
(* between two polls, so every poll reads a later instant of the steady     *)
(* clock than the poll before it.  A call is entered in the step that       *)
(* reaches it: pushing a frame touches no shared state.                     *)
(*                                                                          *)
(* openAudioFile is the boundary to the rendering backend.  The body in the *)
(* repository (lines 285-289) is a placeholder that returns true; the       *)
(* worker branches on the result (lines 238-243), so the result is an input *)
(* of the model and both branches are modelled.                             *)
(***************************************************************************)
EXTENDS Integers, Sequences, FiniteSets, TLC

\* ---------------------------------------------------------------- bounds
MaxOps == 3          \* operations the caller issues in one run
MaxTicks == 1        \* last instant of the clock, in ticks
MaxObservers == 1    \* registrations the registry holds in one run

\* ------------------------------------------------------ program constants
Duration == 180      \* mDuration = 180.0
TickSeconds == Duration

Tracks == {"a", "b"}
Handles == {"h1"}
RepeatModes == {"None", "Single", "All"}
SeekPositions == {0, Duration}
AliasCur == "&mCurrentTrack"   \* a const std::string& bound to mCurrentTrack

Caller == 0
Workers == 1..MaxOps           \* every operation starts at most one worker
Threads == {Caller} \cup Workers

VARIABLES
    mIsPlaying, mIsPaused, mShouldStop,   \* std::atomic<bool>
    mCurrentPosition, mDuration,          \* double, seconds
    mCurrentTrack,                        \* std::string
    mRepeatMode,
    mQueue,                               \* std::queue<std::string>
    mObservers,                           \* std::vector<shared_ptr<IPlaybackObserver>>
    mPlaybackThread,                      \* 0: not joinable, w: handle of worker w
    stack,                                \* call stack of every thread, top first
    wstatus,                              \* "unborn" | "running" | "finished" | "joined"
    spawned,                              \* workers created so far
    crashed,                              \* "" or the reason std::terminate was called
    destroyed,                            \* the destructor has completed
    opsLeft,                              \* operations the caller may still issue
    count, last,                          \* the notifications made so far
    pre                                   \* the last two operations the caller invoked

vars == <<mIsPlaying, mIsPaused, mShouldStop, mCurrentPosition, mDuration,
          mCurrentTrack, mRepeatMode, mQueue, mObservers, mPlaybackThread,
          stack, wstatus, spawned, crashed, destroyed, opsLeft, count, last, pre>>

flags == <<mIsPlaying, mIsPaused, mShouldStop>>
posdur == <<mCurrentPosition, mDuration>>
threadvars == <<mPlaybackThread, wstatus, spawned>>
ends == <<crashed, destroyed>>
log == <<count, last>>
budget == <<opsLeft, pre>>

\* ---------------------------------------------------------------- helpers
Frame(fn, pc, uri, n) == [fn |-> fn, pc |-> pc, uri |-> uri, n |-> n]

Top(t) == Head(stack[t])

At(t, fn, pc) ==
    /\ crashed = ""
    /\ stack[t] # <<>>
    /\ Top(t).fn = fn
    /\ Top(t).pc = pc

\* The value a const std::string& parameter denotes now.
Deref(u) == IF u = AliasCur THEN mCurrentTrack ELSE u

\* Frames whose pc is 0 have nothing left to do but return.
RECURSIVE Unwind(_)
Unwind(s) == IF s # <<>> /\ Head(s).pc = 0 THEN Unwind(Tail(s)) ELSE s

\* A frame standing at a call enters the callee:
\*   play:54 stop();   next:131 play(nextTrack);   ~BasicMusicPlayer:48 stop();
\*   playbackThreadFunction:273 next(); return;
RECURSIVE Enter(_)
Enter(s) ==
    IF s = <<>> THEN s
    ELSE LET f == Head(s) IN
         IF f.fn = "play" /\ f.pc = 54
           THEN <<Frame("stop", 96, "", 0), [f EXCEPT !.pc = 58]>> \o Tail(s)
         ELSE IF f.fn = "next" /\ f.pc = 131
           THEN Enter(<<Frame("play", 54, f.uri, 0), [f EXCEPT !.pc = 0]>> \o Tail(s))
         ELSE IF f.fn = "dtor" /\ f.pc = 48
           THEN <<Frame("stop", 96, "", 0), [f EXCEPT !.pc = 49]>> \o Tail(s)
         ELSE IF f.fn = "playbackThreadFunction" /\ f.pc = 273
           THEN <<Frame("next", 116, "", 0), [f EXCEPT !.pc = 0]>> \o Tail(s)
         ELSE s

\* Thread t moves to line pc of the function it is in.
Goto(t, pc) ==
    stack' = [stack EXCEPT ![t] = Enter(<<[Top(t) EXCEPT !.pc = pc]>> \o Tail(stack[t]))]

GotoN(t, pc, n) ==
    stack' = [stack EXCEPT ![t] = <<[Top(t) EXCEPT !.pc = pc, !.n = n]>> \o Tail(stack[t])]

\* Thread t calls fn(uri) and will continue at line ret (0: return at once).
Call(t, fn, pc, uri, ret) ==
    stack' = [stack EXCEPT ![t] =
                Enter(<<Frame(fn, pc, uri, 0), [Top(t) EXCEPT !.pc = ret]>> \o Tail(stack[t]))]

\* Thread t returns from the function it is in; a worker whose stack empties
\* has terminated.
Return(t) ==
    LET rest == Enter(Unwind(Tail(stack[t]))) IN
    /\ stack' = [stack EXCEPT ![t] = rest]
    /\ wstatus' = IF t \in Workers /\ rest = <<>>
                    THEN [wstatus EXCEPT ![t] = "finished"]
                    ELSE wstatus

EventTypes == {"started", "paused", "stopped", "trackChanged", "progress"}

NoEvent == [ev |-> "", uri |-> "", pos |-> 0, dur |-> 0, by |-> 0, w |-> 0, to |-> <<>>]

\* notifyXxx(): under mObserverMutex, call every registered observer in
\* registration order.  count[ev] is the number of notifications of ev made
\* so far; last is the latest one: to is the sequence of observers called,
\* by the notifying thread, w the worker the event belongs to (0: none).
Notify(ev, uri, pos, dur, t, w) ==
    /\ count' = [count EXCEPT ![ev] = @ + 1]
    /\ last' = [ev |-> ev, uri |-> uri, pos |-> pos, dur |-> dur,
                by |-> t, w |-> w, to |-> mObservers]

isPlaying == mIsPlaying /\ ~mIsPaused

\* std::remove_if + erase: drops every entry equal to h.
RECURSIVE RemoveAll(_, _)
RemoveAll(s, h) ==
    IF s = <<>> THEN <<>>
    ELSE IF Head(s) = h THEN RemoveAll(Tail(s), h)
    ELSE <<Head(s)>> \o RemoveAll(Tail(s), h)

\* ------------------------------------------------------------------- Init
Init ==
    /\ mIsPlaying = FALSE
    /\ mIsPaused = FALSE
    /\ mShouldStop = FALSE
    /\ mCurrentPosition = 0
    /\ mDuration = 0
    /\ mCurrentTrack = ""
    /\ mRepeatMode = "None"
    /\ mQueue = <<>>
    /\ mObservers = <<>>
    /\ mPlaybackThread = 0
    /\ stack = [t \in Threads |-> <<>>]
    /\ wstatus = [w \in Workers |-> "unborn"]
    /\ spawned = 0
    /\ crashed = ""
    /\ destroyed = FALSE
    /\ opsLeft = MaxOps
    /\ count = [e \in EventTypes |-> 0]
    /\ last = NoEvent
    /\ pre = <<"", "">>


\* Mutant: join() that returns without waiting for the worker.
JoinPlaybackThread_NoWait(t, pc) ==
    /\ Goto(t, pc)
    /\ UNCHANGED <<threadvars, crashed>>

\* std::thread::join() called by thread t on mPlaybackThread, when joinable:
\* a thread joining itself gets resource_deadlock_would_occur, which nothing
\* catches; otherwise t waits until the worker has terminated.
JoinPlaybackThread(t, pc) ==
    IF mPlaybackThread = 0
      THEN Goto(t, pc) /\ UNCHANGED <<threadvars, crashed>>
    ELSE IF mPlaybackThread = t
      THEN /\ crashed' = "self_join"
           /\ UNCHANGED <<stack, threadvars>>
    ELSE /\ wstatus[mPlaybackThread] = "finished"
         /\ wstatus' = [wstatus EXCEPT ![mPlaybackThread] = "joined"]
         /\ mPlaybackThread' = 0
         /\ Goto(t, pc)
         /\ UNCHANGED <<spawned, crashed>>


\* Mutant: play() that pushes uri without clearing the queue first.
play_58_NoClear(t) ==
    /\ At(t, "play", 58)
    /\ mQueue' = Append(mQueue, Deref(Top(t).uri))
    /\ Goto(t, 65)
    /\ UNCHANGED <<flags, posdur, mCurrentTrack, mRepeatMode, mObservers,
                   threadvars, ends, budget, log>>

\* ------------------------------------------------------------- play(uri)
play_58(t) ==       \* { lock; swap(mQueue, empty); mQueue.push(uri); }
    /\ At(t, "play", 58)
    /\ mQueue' = <<Deref(Top(t).uri)>>
    /\ Goto(t, 65)
    /\ UNCHANGED <<flags, posdur, mCurrentTrack, mRepeatMode, mObservers,
                   threadvars, ends, budget, log>>

play_65(t) ==       \* mCurrentTrack = uri;
    /\ At(t, "play", 65)
    /\ mCurrentTrack' = Deref(Top(t).uri)
    /\ Goto(t, 66)
    /\ UNCHANGED <<flags, posdur, mRepeatMode, mQueue, mObservers,
                   threadvars, ends, budget, log>>

play_66(t) ==       \* mIsPlaying = true;
    /\ At(t, "play", 66)
    /\ mIsPlaying' = TRUE
    /\ Goto(t, 67)
    /\ UNCHANGED <<mIsPaused, mShouldStop, posdur, mCurrentTrack, mRepeatMode, mQueue,
                   mObservers, threadvars, ends, budget, log>>


\* Mutant: play() that leaves mIsPaused as it was.
play_67_KeepPaused(t) ==
    /\ At(t, "play", 67)
    /\ Goto(t, 68)
    /\ UNCHANGED <<flags, posdur, mCurrentTrack, mRepeatMode, mQueue,
                   mObservers, threadvars, ends, budget, log>>

play_67(t) ==       \* mIsPaused = false;
    /\ At(t, "play", 67)
    /\ mIsPaused' = FALSE
    /\ Goto(t, 68)
    /\ UNCHANGED <<mIsPlaying, mShouldStop, posdur, mCurrentTrack, mRepeatMode, mQueue,
                   mObservers, threadvars, ends, budget, log>>

play_68(t) ==       \* mShouldStop = false;
    /\ At(t, "play", 68)
    /\ mShouldStop' = FALSE
    /\ Goto(t, 71)
    /\ UNCHANGED <<mIsPlaying, mIsPaused, posdur, mCurrentTrack, mRepeatMode, mQueue,
                   mObservers, threadvars, ends, budget, log>>

play_71(t) ==       \* if (mPlaybackThread.joinable()) mPlaybackThread.join();
    /\ At(t, "play", 71)
    /\ JoinPlaybackThread(t, 75)
    /\ UNCHANGED <<flags, posdur, mCurrentTrack, mRepeatMode, mQueue, mObservers,
                   destroyed, budget, log>>

\* mPlaybackThread = std::thread(&playbackThreadFunction, this): move-assigning
\* to a joinable std::thread calls std::terminate.
play_75(t) ==
    /\ At(t, "play", 75)
    /\ IF mPlaybackThread # 0
         THEN /\ crashed' = "assign_joinable"
              /\ UNCHANGED <<stack, threadvars>>
         ELSE /\ spawned < MaxOps
              /\ spawned' = spawned + 1
              /\ mPlaybackThread' = spawned + 1
              /\ wstatus' = [wstatus EXCEPT ![spawned + 1] = "running"]
              /\ stack' = [stack EXCEPT
                             ![t] = <<[Top(t) EXCEPT !.pc = 77, !.n = spawned + 1]>>
                                      \o Tail(stack[t]),
                             ![spawned + 1] =
                                 <<Frame("playbackThreadFunction", 238, "", -1)>>]
              /\ UNCHANGED crashed
    /\ UNCHANGED <<flags, posdur, mCurrentTrack, mRepeatMode, mQueue, mObservers,
                   destroyed, budget, log>>

play_77(t) ==       \* notifyTrackChanged(uri);
    /\ At(t, "play", 77)
    /\ Notify("trackChanged", Deref(Top(t).uri), 0, 0, t, Top(t).n)
    /\ Goto(t, 78)
    /\ UNCHANGED <<flags, posdur, mCurrentTrack, mRepeatMode, mQueue, mObservers,
                   threadvars, ends, budget>>

play_78(t) ==       \* notifyPlaybackStarted();
    /\ At(t, "play", 78)
    /\ Notify("started", "", 0, 0, t, Top(t).n)
    /\ Return(t)
    /\ UNCHANGED <<flags, posdur, mCurrentTrack, mRepeatMode, mQueue, mObservers,
                   mPlaybackThread, spawned, ends, budget>>

play(t) ==
    \/ play_58(t) \/ play_65(t) \/ play_66(t) \/ play_67(t)
    \/ play_68(t) \/ play_71(t) \/ play_75(t) \/ play_77(t) \/ play_78(t)


\* Mutant: stop() without the mIsPlaying test.
stop_96_NoTest(t) ==
    /\ At(t, "stop", 96)
    /\ Goto(t, 97)
    /\ UNCHANGED <<flags, posdur, mCurrentTrack, mRepeatMode, mQueue, mObservers,
                   threadvars, ends, budget, log>>

\* ----------------------------------------------------------------- stop()
stop_96(t) ==       \* if (mIsPlaying) {
    /\ At(t, "stop", 96)
    /\ IF mIsPlaying
         THEN Goto(t, 97) /\ UNCHANGED wstatus
         ELSE Return(t)
    /\ UNCHANGED <<flags, posdur, mCurrentTrack, mRepeatMode, mQueue, mObservers,
                   mPlaybackThread, spawned, ends, budget, log>>

stop_97(t) ==       \* mShouldStop = true;
    /\ At(t, "stop", 97)
    /\ mShouldStop' = TRUE
    /\ Goto(t, 98)
    /\ UNCHANGED <<mIsPlaying, mIsPaused, posdur, mCurrentTrack, mRepeatMode, mQueue,
                   mObservers, threadvars, ends, budget, log>>

stop_98(t) ==       \* mIsPlaying = false;
    /\ At(t, "stop", 98)
    /\ mIsPlaying' = FALSE
    /\ Goto(t, 99)
    /\ UNCHANGED <<mIsPaused, mShouldStop, posdur, mCurrentTrack, mRepeatMode, mQueue,
                   mObservers, threadvars, ends, budget, log>>

stop_99(t) ==       \* mIsPaused = false;
    /\ At(t, "stop", 99)
    /\ mIsPaused' = FALSE
    /\ Goto(t, 101)
    /\ UNCHANGED <<mIsPlaying, mShouldStop, posdur, mCurrentTrack, mRepeatMode, mQueue,
                   mObservers, threadvars, ends, budget, log>>


\* Mutant: stop() that does not join the worker.
stop_101_NoJoin(t) ==
    /\ At(t, "stop", 101)
    /\ Goto(t, 105)
    /\ UNCHANGED <<flags, posdur, mCurrentTrack, mRepeatMode, mQueue, mObservers,
                   threadvars, ends, budget, log>>

stop_101(t) ==      \* if (mPlaybackThread.joinable()) mPlaybackThread.join();
    /\ At(t, "stop", 101)
    /\ JoinPlaybackThread(t, 105)
    /\ UNCHANGED <<flags, posdur, mCurrentTrack, mRepeatMode, mQueue, mObservers,
                   destroyed, budget, log>>

stop_105(t) ==      \* mCurrentTrack = "";
    /\ At(t, "stop", 105)
    /\ mCurrentTrack' = ""
    /\ Goto(t, 106)
    /\ UNCHANGED <<flags, posdur, mRepeatMode, mQueue, mObservers,
                   threadvars, ends, budget, log>>

stop_106(t) ==      \* mCurrentPosition = 0;
    /\ At(t, "stop", 106)
    /\ mCurrentPosition' = 0
    /\ Goto(t, 108)
    /\ UNCHANGED <<flags, mDuration, mCurrentTrack, mRepeatMode, mQueue, mObservers,
                   threadvars, ends, budget, log>>

stop_108(t) ==      \* notifyPlaybackStopped();
    /\ At(t, "stop", 108)
    /\ Notify("stopped", "", 0, 0, t, 0)
    /\ Return(t)
    /\ UNCHANGED <<flags, posdur, mCurrentTrack, mRepeatMode, mQueue, mObservers,
                   mPlaybackThread, spawned, ends, budget>>

stop(t) ==
    \/ stop_96(t) \/ stop_97(t) \/ stop_98(t) \/ stop_99(t)
    \/ stop_101(t) \/ stop_105(t) \/ stop_106(t) \/ stop_108(t)


\* Mutant: pause() that tests mIsPlaying only.
pause_82_NoPausedTest(t) ==
    /\ At(t, "pause", 82)
    /\ IF mIsPlaying
         THEN Goto(t, 83) /\ UNCHANGED wstatus
         ELSE Return(t)
    /\ UNCHANGED <<flags, posdur, mCurrentTrack, mRepeatMode, mQueue, mObservers,
                   mPlaybackThread, spawned, ends, budget, log>>

\* ------------------------------------------------------- pause(), resume()
pause_82(t) ==      \* if (mIsPlaying && !mIsPaused) {
    /\ At(t, "pause", 82)
    /\ IF mIsPlaying /\ ~mIsPaused
         THEN Goto(t, 83) /\ UNCHANGED wstatus
         ELSE Return(t)
    /\ UNCHANGED <<flags, posdur, mCurrentTrack, mRepeatMode, mQueue, mObservers,
                   mPlaybackThread, spawned, ends, budget, log>>

pause_83(t) ==      \* mIsPaused = true;
    /\ At(t, "pause", 83)
    /\ mIsPaused' = TRUE
    /\ Goto(t, 84)
    /\ UNCHANGED <<mIsPlaying, mShouldStop, posdur, mCurrentTrack, mRepeatMode, mQueue,
                   mObservers, threadvars, ends, budget, log>>

pause_84(t) ==      \* notifyPlaybackPaused();
    /\ At(t, "pause", 84)
    /\ Notify("paused", "", 0, 0, t, 0)
    /\ Return(t)
    /\ UNCHANGED <<flags, posdur, mCurrentTrack, mRepeatMode, mQueue, mObservers,
                   mPlaybackThread, spawned, ends, budget>>

pause(t) == pause_82(t) \/ pause_83(t) \/ pause_84(t)


\* Mutant: resume() that tests mIsPlaying only.
resume_89_NoPausedTest(t) ==
    /\ At(t, "resume", 89)
    /\ IF mIsPlaying
         THEN Goto(t, 90) /\ UNCHANGED wstatus
         ELSE Return(t)
    /\ UNCHANGED <<flags, posdur, mCurrentTrack, mRepeatMode, mQueue, mObservers,
                   mPlaybackThread, spawned, ends, budget, log>>

resume_89(t) ==     \* if (mIsPlaying && mIsPaused) {
    /\ At(t, "resume", 89)
    /\ IF mIsPlaying /\ mIsPaused
         THEN Goto(t, 90) /\ UNCHANGED wstatus
         ELSE Return(t)
    /\ UNCHANGED <<flags, posdur, mCurrentTrack, mRepeatMode, mQueue, mObservers,
                   mPlaybackThread, spawned, ends, budget, log>>

\* Mutant: resume() that leaves mIsPaused set.
resume_90_KeepPaused(t) ==
    /\ At(t, "resume", 90)
    /\ Goto(t, 91)
    /\ UNCHANGED <<flags, posdur, mCurrentTrack, mRepeatMode, mQueue,
                   mObservers, threadvars, ends, budget, log>>

resume_90(t) ==     \* mIsPaused = false;
    /\ At(t, "resume", 90)
    /\ mIsPaused' = FALSE
    /\ Goto(t, 91)
    /\ UNCHANGED <<mIsPlaying, mShouldStop, posdur, mCurrentTrack, mRepeatMode, mQueue,
                   mObservers, threadvars, ends, budget, log>>

resume_91(t) ==     \* notifyPlaybackStarted();
    /\ At(t, "resume", 91)
    /\ Notify("started", "", 0, 0, t, 0)
    /\ Return(t)
    /\ UNCHANGED <<flags, posdur, mCurrentTrack, mRepeatMode, mQueue, mObservers,
                   mPlaybackThread, spawned, ends, budget>>

resume(t) == resume_89(t) \/ resume_90(t) \/ resume_91(t)

\* ----------------------------------------------------------------- next()
\* The size test, and the debug print before it (113-114), read mQueue
\* without mQueueMutex; they change nothing.
next_116(t) ==      \* if (mQueue.size() <= 1) { stop(); return; }   (read without the lock)
    /\ At(t, "next", 116)
    /\ IF Len(mQueue) <= 1
         THEN Call(t, "stop", 96, "", 0)
         ELSE Goto(t, 124)
    /\ UNCHANGED <<flags, posdur, mCurrentTrack, mRepeatMode, mQueue, mObservers,
                   threadvars, ends, budget, log>>

\* Mutant: next() that takes the entry behind the head.
next_124_TakesSecond(t) ==
    /\ At(t, "next", 124)
    /\ IF mQueue = <<>>
         THEN Return(t) /\ UNCHANGED mQueue
         ELSE /\ stack' = [stack EXCEPT ![t] =
                             Enter(<<[Top(t) EXCEPT !.pc = 131,
                                                    !.uri = mQueue[Len(mQueue)]]>>
                                     \o Tail(stack[t]))]
              /\ mQueue' = SubSeq(mQueue, 1, Len(mQueue) - 1)
              /\ UNCHANGED wstatus
    /\ UNCHANGED <<flags, posdur, mCurrentTrack, mRepeatMode, mObservers,
                   mPlaybackThread, spawned, ends, budget, log>>

next_124(t) ==      \* { lock; if (mQueue.empty()) return; nextTrack = front(); pop(); }
    /\ At(t, "next", 124)
    /\ IF mQueue = <<>>
         THEN Return(t) /\ UNCHANGED mQueue
         ELSE /\ stack' = [stack EXCEPT ![t] =
                             Enter(<<[Top(t) EXCEPT !.pc = 131, !.uri = Head(mQueue)]>>
                                     \o Tail(stack[t]))]
              /\ mQueue' = Tail(mQueue)
              /\ UNCHANGED wstatus
    /\ UNCHANGED <<flags, posdur, mCurrentTrack, mRepeatMode, mObservers,
                   mPlaybackThread, spawned, ends, budget, log>>

next(t) == next_116(t) \/ next_124(t)

\* ------------------------------------------------------------- previous()
previous_137(t) ==  \* if (!mCurrentTrack.empty()) play(mCurrentTrack);
    /\ At(t, "previous", 137)
    /\ IF mCurrentTrack # ""
         THEN Call(t, "play", 54, AliasCur, 0) /\ UNCHANGED wstatus
         ELSE Return(t)
    /\ UNCHANGED <<flags, posdur, mCurrentTrack, mRepeatMode, mQueue, mObservers,
                   mPlaybackThread, spawned, ends, budget, log>>

previous(t) == previous_137(t)

\* ---------------------------------------------------------- seek(position)
seek_145(t) ==      \* mCurrentPosition = position;
    /\ At(t, "seek", 145)
    /\ mCurrentPosition' = Top(t).n
    /\ Goto(t, 146)
    /\ UNCHANGED <<flags, mDuration, mCurrentTrack, mRepeatMode, mQueue, mObservers,
                   threadvars, ends, budget, log>>

seek_146(t) ==      \* notifyPlaybackProgress(mCurrentPosition, mDuration);
    /\ At(t, "seek", 146)
    /\ Notify("progress", "", mCurrentPosition, mDuration, t, 0)
    /\ Return(t)
    /\ UNCHANGED <<flags, posdur, mCurrentTrack, mRepeatMode, mQueue, mObservers,
                   mPlaybackThread, spawned, ends, budget>>

seek(t) == seek_145(t) \/ seek_146(t)

\* Mutant: enqueue that pushes at the head of the queue.
enqueue_PushFront(t) ==
    /\ At(t, "enqueue", 150)
    /\ mQueue' = <<Deref(Top(t).uri)>> \o mQueue
    /\ Return(t)
    /\ UNCHANGED <<flags, posdur, mCurrentTrack, mRepeatMode, mObservers,
                   mPlaybackThread, spawned, ends, budget, log>>

\* ------------------------------------------------ enqueue(uri), clearQueue()
enqueue(t) ==       \* lock; mQueue.push(uri);
    /\ At(t, "enqueue", 150)
    /\ mQueue' = Append(mQueue, Deref(Top(t).uri))
    /\ Return(t)
    /\ UNCHANGED <<flags, posdur, mCurrentTrack, mRepeatMode, mObservers,
                   mPlaybackThread, spawned, ends, budget, log>>

clearQueue(t) ==    \* lock; swap(mQueue, empty);
    /\ At(t, "clearQueue", 155)
    /\ mQueue' = <<>>
    /\ Return(t)
    /\ UNCHANGED <<flags, posdur, mCurrentTrack, mRepeatMode, mObservers,
                   mPlaybackThread, spawned, ends, budget, log>>

\* ------------------------------------------------------ setRepeatMode(mode)
setRepeatMode(t) == \* mRepeatMode = mode;
    /\ At(t, "setRepeatMode", 161)
    /\ mRepeatMode' = Top(t).uri
    /\ Return(t)
    /\ UNCHANGED <<flags, posdur, mCurrentTrack, mQueue, mObservers,
                   mPlaybackThread, spawned, ends, budget, log>>

\* ------------------------------------------- addObserver, removeObserver
addObserver(t) ==   \* lock; mObservers.push_back(observer);
    /\ At(t, "addObserver", 181)
    /\ mObservers' = Append(mObservers, Top(t).uri)
    /\ Return(t)
    /\ UNCHANGED <<flags, posdur, mCurrentTrack, mRepeatMode, mQueue,
                   mPlaybackThread, spawned, ends, budget, log>>

\* Mutant: removeObserver that erases the whole registry.
removeObserver_ErasesAll(t) ==
    /\ At(t, "removeObserver", 186)
    /\ mObservers' = <<>>
    /\ Return(t)
    /\ UNCHANGED <<flags, posdur, mCurrentTrack, mRepeatMode, mQueue,
                   mPlaybackThread, spawned, ends, budget, log>>

removeObserver(t) ==    \* lock; erase(remove_if(== observer), end);
    /\ At(t, "removeObserver", 186)
    /\ mObservers' = RemoveAll(mObservers, Top(t).uri)
    /\ Return(t)
    /\ UNCHANGED <<flags, posdur, mCurrentTrack, mRepeatMode, mQueue,
                   mPlaybackThread, spawned, ends, budget, log>>

\* ------------------------------------------------------ ~BasicMusicPlayer()
dtor_49(t) ==       \* clearQueue();
    /\ At(t, "dtor", 49)
    /\ mQueue' = <<>>
    /\ Goto(t, 50)
    /\ UNCHANGED <<flags, posdur, mCurrentTrack, mRepeatMode, mObservers,
                   threadvars, ends, budget, log>>

\* The members are destroyed; ~thread() of a joinable thread calls
\* std::terminate.
dtor_50(t) ==
    /\ At(t, "dtor", 50)
    /\ IF mPlaybackThread # 0
         THEN /\ crashed' = "destroy_joinable"
              /\ UNCHANGED <<stack, wstatus, destroyed>>
         ELSE /\ destroyed' = TRUE
              /\ Return(t)
              /\ UNCHANGED crashed
    /\ UNCHANGED <<flags, posdur, mCurrentTrack, mRepeatMode, mQueue, mObservers,
                   mPlaybackThread, spawned, budget, log>>

dtor(t) == dtor_49(t) \/ dtor_50(t)

\* --------------------------------------------------- playbackThreadFunction
Fn == "playbackThreadFunction"

\* if (!openAudioFile(mCurrentTrack)): the backend opens the track or fails.
thread_238(t) ==
    /\ At(t, Fn, 238)
    /\ \E ok \in BOOLEAN : Goto(t, IF ok THEN 246 ELSE 240)
    /\ UNCHANGED <<flags, posdur, mCurrentTrack, mRepeatMode, mQueue, mObservers,
                   threadvars, ends, budget, log>>

thread_240(t) ==    \* mIsPlaying = false;
    /\ At(t, Fn, 240)
    /\ mIsPlaying' = FALSE
    /\ Goto(t, 241)
    /\ UNCHANGED <<mIsPaused, mShouldStop, posdur, mCurrentTrack, mRepeatMode, mQueue,
                   mObservers, threadvars, ends, budget, log>>

thread_241(t) ==    \* notifyPlaybackStopped(); return;
    /\ At(t, Fn, 241)
    /\ Notify("stopped", "", 0, 0, t, t)
    /\ Return(t)
    /\ UNCHANGED <<flags, posdur, mCurrentTrack, mRepeatMode, mQueue, mObservers,
                   mPlaybackThread, spawned, ends, budget>>

thread_246(t) ==    \* mDuration = 180.0;
    /\ At(t, Fn, 246)
    /\ mDuration' = Duration
    /\ Goto(t, 247)
    /\ UNCHANGED <<flags, mCurrentPosition, mCurrentTrack, mRepeatMode, mQueue,
                   mObservers, threadvars, ends, budget, log>>

thread_247(t) ==    \* mCurrentPosition = 0.0; startTime = now();
    /\ At(t, Fn, 247)
    /\ mCurrentPosition' = 0
    /\ Goto(t, 251)
    /\ UNCHANGED <<flags, mDuration, mCurrentTrack, mRepeatMode, mQueue, mObservers,
                   threadvars, ends, budget, log>>

\* Mutant: a worker that notifies playback-stopped when it leaves its loop.
thread_251_NotifyOnExit(t) ==
    /\ At(t, Fn, 251)
    /\ IF mIsPlaying /\ ~mShouldStop
         THEN Goto(t, 252) /\ UNCHANGED <<wstatus, log>>
         ELSE Return(t) /\ Notify("stopped", "", 0, 0, t, t)
    /\ UNCHANGED <<flags, posdur, mCurrentTrack, mRepeatMode, mQueue, mObservers,
                   mPlaybackThread, spawned, ends, budget>>

thread_251(t) ==    \* while (mIsPlaying && !mShouldStop) { ... } closeAudioFile();
    /\ At(t, Fn, 251)
    /\ IF mIsPlaying /\ ~mShouldStop
         THEN Goto(t, 252) /\ UNCHANGED wstatus
         ELSE Return(t)
    /\ UNCHANGED <<flags, posdur, mCurrentTrack, mRepeatMode, mQueue, mObservers,
                   mPlaybackThread, spawned, ends, budget, log>>

thread_252(t) ==    \* if (!mIsPaused) { ... } sleep_for(100ms);
    /\ At(t, Fn, 252)
    /\ Goto(t, IF mIsPaused THEN 251 ELSE 254)
    /\ UNCHANGED <<flags, posdur, mCurrentTrack, mRepeatMode, mQueue, mObservers,
                   threadvars, ends, budget, log>>

\* mCurrentPosition = now() - startTime: a later tick than the last poll read
\* (the frame's n), or the last tick of the clock.
thread_254(t) ==
    /\ At(t, Fn, 254)
    /\ \E e \in 0..MaxTicks :
         /\ e > Top(t).n \/ e = MaxTicks
         /\ mCurrentPosition' = e * TickSeconds
         /\ GotoN(t, 258, e)
    /\ UNCHANGED <<flags, mDuration, mCurrentTrack, mRepeatMode, mQueue, mObservers,
                   threadvars, ends, budget, log>>

thread_258(t) ==    \* notifyPlaybackProgress(mCurrentPosition, mDuration);
    /\ At(t, Fn, 258)
    /\ Notify("progress", "", mCurrentPosition, mDuration, t, t)
    /\ Goto(t, 261)
    /\ UNCHANGED <<flags, posdur, mCurrentTrack, mRepeatMode, mQueue, mObservers,
                   threadvars, ends, budget>>

\* Mutant: a worker that never finds its track finished.
thread_261_NoCompletion(t) ==
    /\ At(t, Fn, 261)
    /\ Goto(t, 251)
    /\ UNCHANGED <<flags, posdur, mCurrentTrack, mRepeatMode, mQueue, mObservers,
                   threadvars, ends, budget, log>>

thread_261(t) ==    \* if (mCurrentPosition >= mDuration) { ... } sleep_for(100ms);
    /\ At(t, Fn, 261)
    /\ Goto(t, IF mCurrentPosition >= mDuration THEN 263 ELSE 251)
    /\ UNCHANGED <<flags, posdur, mCurrentTrack, mRepeatMode, mQueue, mObservers,
                   threadvars, ends, budget, log>>

thread_263(t) ==    \* if (mRepeatMode == Single) { play(mCurrentTrack); return; }
    /\ At(t, Fn, 263)
    /\ IF mRepeatMode = "Single"
         THEN Call(t, "play", 54, AliasCur, 0)
         ELSE Goto(t, 267)
    /\ UNCHANGED <<flags, posdur, mCurrentTrack, mRepeatMode, mQueue, mObservers,
                   threadvars, ends, budget, log>>

\* Mutant: completion handling that goes to next() without re-appending.
thread_267_NoRequeue(t) ==
    /\ At(t, Fn, 267)
    /\ Goto(t, 273)
    /\ UNCHANGED <<flags, posdur, mCurrentTrack, mRepeatMode, mQueue, mObservers,
                   threadvars, ends, budget, log>>

thread_267(t) ==    \* else if (mRepeatMode == All) enqueue(mCurrentTrack);
    /\ At(t, Fn, 267)
    /\ IF mRepeatMode = "All"
         THEN Call(t, "enqueue", 150, AliasCur, 273)
         ELSE Goto(t, 273)
    /\ UNCHANGED <<flags, posdur, mCurrentTrack, mRepeatMode, mQueue, mObservers,
                   threadvars, ends, budget, log>>

playbackThreadFunction(t) ==
    \/ thread_238(t) \/ thread_240(t) \/ thread_241(t) \/ thread_246(t)
    \/ thread_247(t) \/ thread_251(t) \/ thread_252(t) \/ thread_254(t)
    \/ thread_258(t) \/ thread_261(t) \/ thread_263(t) \/ thread_267(t)

\* ----------------------------------------------- the caller's command loop
Idle ==
    /\ crashed = ""
    /\ ~destroyed
    /\ stack[Caller] = <<>>

\* The caller invokes fn with argument uri / n.
Invoke(fn, pc, uri, n) ==
    /\ Idle
    /\ opsLeft > 0
    /\ opsLeft' = opsLeft - 1
    /\ stack' = [stack EXCEPT ![Caller] = Enter(<<Frame(fn, pc, uri, n)>>)]
    /\ pre' = <<pre[2], fn>>
    /\ UNCHANGED <<flags, posdur, mCurrentTrack, mRepeatMode, mQueue, mObservers,
                   threadvars, ends, log>>

CallPlay == \E u \in Tracks : Invoke("play", 54, u, 0)
CallPause == Invoke("pause", 82, "", 0)
CallResume == Invoke("resume", 89, "", 0)
CallStop == Invoke("stop", 96, "", 0)
CallNext == Invoke("next", 116, "", 0)
CallPrevious == Invoke("previous", 137, "", 0)
CallSeek == \E p \in SeekPositions : Invoke("seek", 145, "", p)
CallEnqueue == \E u \in Tracks : Invoke("enqueue", 150, u, 0)
CallClearQueue == Invoke("clearQueue", 155, "", 0)
CallSetRepeatMode == \E m \in RepeatModes : Invoke("setRepeatMode", 161, m, 0)
CallAddObserver ==
    /\ Len(mObservers) < MaxObservers
    /\ \E h \in Handles : Invoke("addObserver", 181, h, 0)
CallRemoveObserver == \E h \in Handles : Invoke("removeObserver", 186, h, 0)
CallDestroy == Invoke("dtor", 48, "", 0)

Command ==
    \/ CallPlay \/ CallPause \/ CallResume \/ CallStop \/ CallNext
    \/ CallPrevious \/ CallSeek \/ CallEnqueue \/ CallClearQueue
    \/ CallSetRepeatMode \/ CallAddObserver \/ CallRemoveObserver
    \/ CallDestroy

Step(t) ==
    \/ play(t) \/ stop(t) \/ pause(t) \/ resume(t) \/ next(t) \/ previous(t)
    \/ seek(t) \/ enqueue(t) \/ clearQueue(t) \/ setRepeatMode(t)
    \/ addObserver(t) \/ removeObserver(t) \/ dtor(t)
    \/ playbackThreadFunction(t)

Next == Command \/ \E t \in Threads : Step(t)

Spec == Init /\ [][Next]_vars

TypeOK ==
    /\ mIsPlaying \in BOOLEAN /\ mIsPaused \in BOOLEAN /\ mShouldStop \in BOOLEAN
    /\ mCurrentTrack \in Tracks \cup {""}
    /\ mRepeatMode \in RepeatModes
    /\ mPlaybackThread \in {0} \cup Workers
    /\ spawned \in 0..MaxOps
    /\ opsLeft \in 0..MaxOps

\* ===================================================================
\* Properties
\* ===================================================================
Bottom(t) == stack[t][Len(stack[t])]

\* The caller is inside the operation op it invoked.
CallerIn(op) == stack[Caller] # <<>> /\ Bottom(Caller).fn = op

\* This step is taken by thread t.
StepOf(t) == stack'[t] # stack[t] \/ (crashed' # crashed /\ mPlaybackThread = t)

\* This step is the caller returning from the operation op.
Returns(op) == CallerIn(op) /\ stack'[Caller] = <<>>

\* This step makes exactly one notification, of ev.
Fires(ev) == count' = [count EXCEPT ![ev] = @ + 1]

Running(w) == wstatus[w] = "running"

\* Worker w could not open its track.
FailedOpen(w) ==
    \/ Running(w) /\ Bottom(w).pc = 241
    \/ wstatus[w] \in {"finished", "joined"}

\* Worker w has found its track finished (line 261) and handles it.
Completing(w) == Running(w) /\ Bottom(w).pc \in {263, 267, 273, 0}

\* What the public getters and the queue show.
player == <<mIsPlaying, mIsPaused, mShouldStop, mCurrentPosition, mDuration,
            mCurrentTrack, mRepeatMode, mQueue, mObservers, mPlaybackThread>>

\* C1: play(uri) delivers track-changed(uri) and then playback-started, and
\* both before any playback-progress of the worker this play started: when
\* worker w notifies progress, no play() that created w is still at its
\* notifyTrackChanged (77) or notifyPlaybackStarted (78).
C1_StartedBeforeProgress ==
    [][\A w \in Workers :
         (StepOf(w) /\ Fires("progress")) =>
            ~\E t \in Threads :
                /\ stack[t] # <<>>
                /\ Top(t).fn = "play"
                /\ Top(t).pc \in {77, 78}
                /\ Top(t).n = w]_vars

\* C2: at most one worker is active: every worker that has not been joined
\* is the newest one and is the one mPlaybackThread holds, and no thread
\* handle is overwritten while joinable.
C2_OneWorker ==
    /\ crashed # "assign_joinable"
    /\ \A w \in Workers :
         wstatus[w] \in {"running", "finished"} => (w = spawned /\ mPlaybackThread = w)
    /\ Cardinality({w \in Workers : Running(w)}) <= 1

\* A second worker runs after the first one was joined.
C2_Witness ==
    /\ spawned = 2
    /\ wstatus[1] = "joined"
    /\ Running(2)

\* Thread t is in the queue-exhausted branch of next(): next() called stop()
\* at line 118.
ExhaustedNext(t) ==
    \E i \in 2..Len(stack[t]) :
        /\ stack[t][i].fn = "next"
        /\ stack[t][i].pc = 0
        /\ stack[t][i - 1].fn = "stop"

\* C3: next() with at most one queued entry ends in state Stopped and fires
\* no track-changed, for the caller and for the worker: the thread running
\* it does not terminate the process, fires nothing but playback-stopped,
\* and leaves mIsPlaying false when it returns.
C3_ExhaustedNextStops ==
    [][\A t \in Threads :
         (ExhaustedNext(t) /\ StepOf(t)) =>
            /\ crashed' = ""
            /\ count'["trackChanged"] = count["trackChanged"]
            /\ (~ExhaustedNext(t)' => ~mIsPlaying')]_vars

Stopping == {"pause", "stop", "next", "play", "previous", "dtor"}

C6_StopIdempotent ==
    [][(StepOf(Caller) /\ CallerIn("stop")) =>
         /\ count' # count =>
              /\ At(Caller, "stop", 108)
              /\ Fires("stopped")
              /\ stack'[Caller] = <<>>
         /\ (At(Caller, "stop", 96) /\ ~mIsPlaying) =>
              /\ stack'[Caller] = <<>>
              /\ UNCHANGED <<player, count, last>>
         /\ pre[1] = "stop" => UNCHANGED <<player, count, last>>]_vars

\* play, stop, stop: one playback-stopped was notified.
C6_Witness ==
    /\ Idle
    /\ pre = <<"stop", "stop">>
    /\ count["started"] = 1
    /\ count["stopped"] = 1

\* C7: a stop() of the caller that finds the player Playing or Paused
\* (mIsPlaying at line 96) returns after the worker has terminated, with
\* state Stopped, no current track, position 0, and playback-stopped
\* notified last, after the worker's termination.
C7_StopJoinsAndClears ==
    [][(Returns("stop") /\ ~At(Caller, "stop", 96)) =>
         /\ \A w \in Workers : ~Running(w)
         /\ mPlaybackThread' = 0
         /\ ~mIsPlaying' /\ ~mIsPaused'
         /\ mCurrentTrack' = ""
         /\ mCurrentPosition' = 0
         /\ Fires("stopped")
         /\ last'.ev = "stopped" /\ last'.by = Caller]_vars

\* play, pause, stop: the stop from Paused has returned.
C7_Witness ==
    /\ Idle
    /\ pre = <<"pause", "stop">>
    /\ count["paused"] = 1
    /\ last.ev = "stopped"
    /\ last.by = Caller
    /\ wstatus[1] = "joined"

\* C8: with one observer, play(t) then stop() deliver exactly one
\* playback-started and exactly one playback-stopped, whatever the worker
\* does: once the caller's stop() has returned and the worker has ended,
\* one of each was notified.
C8_OneStartedOneStopped ==
    (/\ stack[Caller] = <<>>
     /\ crashed = ""
     /\ pre = <<"play", "stop">>
     /\ Len(mObservers) = 1
     /\ spawned = 1
     /\ ~Running(1))
    => (count["started"] = 1 /\ count["stopped"] = 1)

\* C9: pause() takes effect only in state Playing.  A pause() that finds the
\* player not Playing (line 82) returns at once and changes nothing; the
\* other moves the state to Paused by setting mIsPaused and then notifies
\* exactly one playback-paused, as its last step; so no more pauses are
\* notified than starts.
C9_PauseOnlyWhenPlaying ==
    [][/\ count'["paused"] <= count'["started"]
       /\ (StepOf(Caller) /\ CallerIn("pause")) =>
            /\ (At(Caller, "pause", 82) /\ ~isPlaying) =>
                 /\ stack'[Caller] = <<>>
                 /\ UNCHANGED <<player, count, last>>
            /\ (At(Caller, "pause", 82) /\ isPlaying) =>
                 /\ At(Caller, "pause", 83)'
                 /\ UNCHANGED <<player, count, last>>
            /\ At(Caller, "pause", 83) =>
                 /\ mIsPaused' /\ ~isPlaying'
                 /\ At(Caller, "pause", 84)'
                 /\ UNCHANGED <<mIsPlaying, mCurrentTrack, mQueue, count, last>>
            /\ count' # count =>
                 /\ At(Caller, "pause", 84)
                 /\ Fires("paused")
                 /\ stack'[Caller] = <<>>
            /\ (Returns("pause") /\ ~At(Caller, "pause", 82)) => Fires("paused")]_vars

\* play, pause: the player is Paused and playback-paused was the last
\* notification.
C9_Witness ==
    /\ Idle
    /\ pre = <<"play", "pause">>
    /\ mIsPlaying /\ mIsPaused
    /\ count["paused"] = 1
    /\ last.ev = "paused"

\* C10: resume() takes effect only in state Paused.  A resume() that finds
\* the player not Paused (line 89) returns at once and changes nothing; the
\* other moves the state to Playing by clearing mIsPaused and then notifies
\* exactly one playback-started, as its last step; so every start notified
\* comes from a play or follows a pause.
C10_ResumeOnlyWhenPaused ==
    [][/\ count'["started"] <= count'["trackChanged"] + count'["paused"]
       /\ (StepOf(Caller) /\ CallerIn("resume")) =>
            /\ (At(Caller, "resume", 89) /\ ~(mIsPlaying /\ mIsPaused)) =>
                 /\ stack'[Caller] = <<>>
                 /\ UNCHANGED <<player, count, last>>
            /\ (At(Caller, "resume", 89) /\ mIsPlaying /\ mIsPaused) =>
                 /\ At(Caller, "resume", 90)'
                 /\ UNCHANGED <<player, count, last>>
            /\ At(Caller, "resume", 90) =>
                 /\ ~mIsPaused'
                 /\ At(Caller, "resume", 91)'
                 /\ UNCHANGED <<mIsPlaying, mCurrentTrack, mQueue, count, last>>
            /\ count' # count =>
                 /\ At(Caller, "resume", 91)
                 /\ Fires("started")
                 /\ stack'[Caller] = <<>>
            /\ (Returns("resume") /\ ~At(Caller, "resume", 89)) => Fires("started")]_vars

\* play, pause, resume: the player plays again and playback-started was the
\* last notification.
C10_Witness ==
    /\ Idle
    /\ pre = <<"pause", "resume">>
    /\ isPlaying
    /\ count["paused"] = 1
    /\ count["started"] = 2
    /\ last.ev = "started"

\* Worker w plays its track: it runs and has neither failed to open the
\* track nor found it finished.
InPlayback(w) ==
    /\ w \in Workers
    /\ Running(w)
    /\ Bottom(w).pc \in {238, 246, 247, 251, 252, 254, 258, 261}

\* C11: pause() followed by resume() while a track is playing restores
\* isPlaying(): when the resume() that follows a pause() returns and the
\* worker still plays the track, isPlaying() is true; and no step of pause()
\* or resume() changes the current track or the queue or notifies
\* track-changed.
C11_PauseResumeRestores ==
    [][/\ (Returns("resume") /\ pre[1] = "pause" /\ InPlayback(spawned)) => isPlaying'
       /\ (StepOf(Caller) /\ (CallerIn("pause") \/ CallerIn("resume"))) =>
            /\ UNCHANGED <<mCurrentTrack, mQueue>>
            /\ count'["trackChanged"] = count["trackChanged"]]_vars

\* play, pause, resume: both took effect, the track plays again, the queue
\* and the current track are those of the play and track-changed was
\* notified once.
C11_Witness ==
    /\ Idle
    /\ pre = <<"pause", "resume">>
    /\ count["paused"] = 1
    /\ count["trackChanged"] = 1
    /\ InPlayback(spawned)
    /\ isPlaying
    /\ mCurrentTrack \in Tracks
    /\ mQueue = <<mCurrentTrack>>

\* The track the call of play() that thread t is entering was given.
PlayArgument(t) ==
    LET i == CHOOSE i \in 1..Len(stack[t]) :
                 /\ stack[t][i].fn = "play"
                 /\ \A j \in 1..(i - 1) : stack[t][j].fn # "play"
    IN  stack[t][i].uri

\* C12: after play(c) and enqueue(a), next() makes a the current track: when
\* the caller's next() takes a track from the queue <<c, a>> while c is the
\* current track (lines 124-131), the track it hands to play() is a, the
\* entry enqueued after the track now playing.
C12_NextPlaysEnqueued ==
    [][(/\ At(Caller, "next", 124)
        /\ StepOf(Caller)
        /\ pre = <<"enqueue", "next">>
        /\ Len(mQueue) = 2
        /\ mQueue[1] = mCurrentTrack)
       => PlayArgument(Caller)' = mQueue[2]]_vars

\* C13: previous() replays the current track.  When a previous() that found
\* a current track returns, that is when the play() it called returns, the
\* current track is again a track and it is the one track-changed was
\* notified with; a previous() that finds no current track returns at once
\* and changes nothing.
C13_PreviousReplays ==
    [][(StepOf(Caller) /\ CallerIn("previous")) =>
         /\ (At(Caller, "previous", 137) /\ mCurrentTrack = "") =>
              /\ stack'[Caller] = <<>>
              /\ UNCHANGED <<player, count, last>>
         /\ (At(Caller, "play", 77) /\ mIsPlaying) =>
              /\ mCurrentTrack \in Tracks
              /\ last'.ev = "trackChanged"
              /\ last'.uri = mCurrentTrack
         /\ (Returns("previous") /\ At(Caller, "play", 78) /\ InPlayback(spawned)) =>
              /\ mCurrentTrack' \in Tracks
              /\ isPlaying']_vars

\* Worker w restarts its finished track: it is in the play(mCurrentTrack)
\* it called at line 265.
RestartingSingle(w) ==
    \E i \in 1..(Len(stack[w]) - 1) :
        /\ stack[w][i].fn = "play"
        /\ stack[w][i + 1].fn = Fn

\* C14: with RepeatMode Single the worker restarts the finished track: the
\* play() it calls at line 265 runs without terminating the process, and
\* when it returns the current track is a track, the state is Playing and a
\* new worker is running.
C14_SingleRestarts ==
    [][\A w \in Workers :
         (RestartingSingle(w) /\ StepOf(w)) =>
            /\ crashed' = ""
            /\ ~RestartingSingle(w)' =>
                 /\ mCurrentTrack' \in Tracks
                 /\ isPlaying'
                 /\ spawned' # w
                 /\ wstatus'[spawned'] = "running"]_vars

\* Worker w is entering next() for the completion of its track (line 273).
EntersNext(w) ==
    /\ Running(w)
    /\ Top(w).fn = "next"
    /\ Top(w).pc = 116
    /\ Len(stack[w]) = 2

\* C15: with RepeatMode All the completed track is appended to the tail of
\* the queue exactly once, before next() is invoked.  The worker that reads
\* RepeatMode All at line 267 calls enqueue and not yet next(); its enqueue
\* appends the current track, once, and only then is next() entered; a
\* worker enters next() from nowhere else than that enqueue or, in the other
\* modes, line 267.
C15_RequeueBeforeNext ==
    [][\A w \in Workers : StepOf(w) =>
         /\ (At(w, Fn, 267) /\ mRepeatMode = "All") =>
              /\ At(w, "enqueue", 150)'
              /\ UNCHANGED mQueue
         /\ At(w, "enqueue", 150) =>
              /\ mQueue' = Append(mQueue, mCurrentTrack)
              /\ EntersNext(w)'
         /\ (EntersNext(w)' /\ ~EntersNext(w)) =>
              \/ At(w, "enqueue", 150)
              \/ At(w, Fn, 267) /\ mRepeatMode # "All" /\ UNCHANGED mQueue]_vars

\* RepeatMode All: the worker has re-appended its track and enters next().
C15_Witness ==
    \E w \in Workers :
        /\ EntersNext(w)
        /\ mRepeatMode = "All"
        /\ mCurrentTrack \in Tracks
        /\ mQueue = <<mCurrentTrack, mCurrentTrack>>

\* Worker w is in its polling loop (lines 251-261).
InLoop(w) == Running(w) /\ Bottom(w).pc \in {251, 252, 254, 258, 261}

\* C16: the completion policy is applied exactly once per track instance.
\* A worker that tests a position at or beyond the duration at line 261
\* enters completion handling and one that tests a smaller position does
\* not; completion handling applies exactly one policy, chosen by the repeat
\* mode (restart at 265, re-append and next() at 269-273, or next() at 273);
\* and a worker that handles completion never returns to its polling loop.
C16_CompletionOnce ==
    [][\A w \in Workers : StepOf(w) =>
         /\ At(w, Fn, 261) =>
              IF mCurrentPosition >= mDuration
                THEN At(w, Fn, 263)' /\ Completing(w)'
                ELSE At(w, Fn, 251)' /\ ~Completing(w)'
         /\ At(w, Fn, 263) =>
              IF mRepeatMode = "Single"
                THEN RestartingSingle(w)' /\ ~EntersNext(w)'
                ELSE At(w, Fn, 267)'
         /\ At(w, Fn, 267) =>
              /\ ~RestartingSingle(w)'
              /\ IF mRepeatMode = "All"
                   THEN At(w, "enqueue", 150)'
                   ELSE EntersNext(w)'
         /\ Completing(w) => ~InLoop(w)'
         /\ (Completing(w)' /\ ~Completing(w)) => At(w, Fn, 261)]_vars

\* A worker has found its track finished and is about to apply the policy.
C16_Witness ==
    \E w \in Workers :
        /\ At(w, Fn, 263)
        /\ mDuration = Duration
        /\ mCurrentPosition >= mDuration
        /\ count["progress"] >= 1

\* C17: no operation is fatal to the process: no execution reaches
\* std::terminate, neither by a thread joining itself, nor by assigning to a
\* joinable thread handle, nor by destroying one.
C17_NeverFatal == crashed = ""

\* C18: when the backend fails to open the track, play() still returns, and
\* once the caller's play() has returned and the worker it started has
\* exited after the failure, the state is Stopped and playback-stopped is
\* the last event the observers received.
C18_OpenFailureEndsStopped ==
    (/\ Idle
     /\ pre[2] = "play"
     /\ spawned \in Workers
     /\ wstatus[spawned] = "finished")
    => (~mIsPlaying /\ ~isPlaying /\ last.ev = "stopped")

\* --------------------------------------------- observers that may throw
\* The lines that call a notify function, and the event each notifies.
NotifyCalls ==
    { <<"play", 77, "trackChanged">>, <<"play", 78, "started">>,
      <<"stop", 108, "stopped">>, <<"pause", 84, "paused">>,
      <<"resume", 91, "started">>, <<"seek", 146, "progress">>,
      <<Fn, 241, "stopped">>, <<Fn, 258, "progress">> }

\* The callback of the k-th registered observer throws.  The notify loops
\* (lines 199-232) have no try block: the observers after the k-th are not
\* called, the lock_guard releases mObserverMutex, and the exception leaves
\* every frame of the thread.  On the caller's thread it reaches the caller
\* of the public operation; leaving a thread function or the destructor it
\* calls std::terminate.
ObserverThrows(t) ==
    /\ \E c \in NotifyCalls, k \in 1..Len(mObservers) :
         /\ At(t, c[1], c[2])
         /\ count' = [count EXCEPT ![c[3]] = @ + 1]
         /\ last' = [NoEvent EXCEPT !.ev = c[3], !.by = t,
                                    !.to = SubSeq(mObservers, 1, k)]
    /\ IF t = Caller /\ Bottom(t).fn # "dtor"
         THEN stack' = [stack EXCEPT ![t] = <<>>] /\ UNCHANGED crashed
         ELSE crashed' = "uncaught_exception" /\ UNCHANGED stack
    /\ UNCHANGED <<flags, posdur, mCurrentTrack, mRepeatMode, mQueue, mObservers,
                   threadvars, destroyed, budget>>

NextObs == Next \/ \E t \in Threads : ObserverThrows(t)

\* The player with observers whose callbacks may throw.
SpecObs == Init /\ [][NextObs]_vars

\* This step is an exception leaving the operation of the caller: the
\* caller's frames are gone although the operation had more to do.
Propagates ==
    /\ stack[Caller] # <<>>
    /\ stack'[Caller] = <<>>
    /\ Unwind(Tail(stack[Caller])) # <<>> \/ At(Caller, "play", 77)

\* C19: an observer callback that throws does not abort the notification of
\* the observers after it and does not propagate: every notification calls
\* all registered observers, terminates nothing, and the operation that made
\* it carries on.
C19_ObserverFailureIsolated ==
    [][count' # count =>
         /\ crashed' = ""
         /\ last'.to = mObservers
         /\ ~Propagates]_vars

\* ------------------------------- the observer registry under mObserverMutex
\* The notify functions step by step: lock mObserverMutex, call the
\* observers one by one, unlock.  A thread inside a notify function has a
\* frame "notify" on top whose n is the index of the observer it calls next;
\* the frame below stays at the line that made the call.
RegHandles == {"h1", "h2"}
MaxRegistered == 2   \* registrations the registry holds in one run

Notifying(t) == stack[t] # <<>> /\ Top(t).fn = "notify"

\* Mutant: a mutex that excludes nobody.
MutexFree_Ignored == TRUE

\* No thread holds mObserverMutex.  addObserver and removeObserver hold it
\* for their single step.
MutexFree == \A t \in Threads : ~Notifying(t)

\* Mutant: notify functions that do not take mObserverMutex.
NotifyLock_NoMutex(t) ==
    /\ \E c \in NotifyCalls :
         /\ At(t, c[1], c[2])
         /\ count' = [count EXCEPT ![c[3]] = @ + 1]
         /\ last' = [ev |-> c[3],
                     uri |-> IF c[3] = "trackChanged" THEN Deref(Top(t).uri) ELSE "",
                     pos |-> IF c[3] = "progress" THEN mCurrentPosition ELSE 0,
                     dur |-> IF c[3] = "progress" THEN mDuration ELSE 0,
                     by |-> t, w |-> 0, to |-> <<>>]
         /\ stack' = [stack EXCEPT ![t] = <<Frame("notify", 201, c[3], 1)>> \o stack[t]]
    /\ UNCHANGED <<flags, posdur, mCurrentTrack, mRepeatMode, mQueue, mObservers,
                   threadvars, ends, budget>>

NotifyLock(t) ==    \* std::lock_guard<std::mutex> lock(mObserverMutex);
    /\ MutexFree
    /\ \E c \in NotifyCalls :
         /\ At(t, c[1], c[2])
         /\ count' = [count EXCEPT ![c[3]] = @ + 1]
         /\ last' = [ev |-> c[3],
                     uri |-> IF c[3] = "trackChanged" THEN Deref(Top(t).uri) ELSE "",
                     pos |-> IF c[3] = "progress" THEN mCurrentPosition ELSE 0,
                     dur |-> IF c[3] = "progress" THEN mDuration ELSE 0,
                     by |-> t, w |-> 0, to |-> <<>>]
         /\ stack' = [stack EXCEPT ![t] = <<Frame("notify", 201, c[3], 1)>> \o stack[t]]
    /\ UNCHANGED <<flags, posdur, mCurrentTrack, mRepeatMode, mQueue, mObservers,
                   threadvars, ends, budget>>

NotifyCallback(t) ==    \* for (auto& observer : mObservers) observer->on...();
    /\ crashed = ""
    /\ Notifying(t)
    /\ Top(t).n <= Len(mObservers)
    /\ last' = [last EXCEPT !.to = Append(@, mObservers[Top(t).n])]
    /\ GotoN(t, 201, Top(t).n + 1)
    /\ UNCHANGED <<flags, posdur, mCurrentTrack, mRepeatMode, mQueue, mObservers,
                   threadvars, ends, budget, count>>

\* The loop is over: the lock_guard unlocks, notify returns and the caller
\* goes on after the line of the call (play:77 to 78, thread:258 to 261, all
\* other calls are the last statement of their function).
NotifyUnlock(t) ==
    /\ crashed = ""
    /\ Notifying(t)
    /\ Top(t).n > Len(mObservers)
    /\ LET s == Tail(stack[t])
           f == Head(s)
           rest == IF f.fn = "play" /\ f.pc = 77
                     THEN <<[f EXCEPT !.pc = 78]>> \o Tail(s)
                   ELSE IF f.fn = Fn /\ f.pc = 258
                     THEN <<[f EXCEPT !.pc = 261]>> \o Tail(s)
                   ELSE Enter(Unwind(Tail(s)))
       IN  /\ stack' = [stack EXCEPT ![t] = rest]
           /\ wstatus' = IF t \in Workers /\ rest = <<>>
                           THEN [wstatus EXCEPT ![t] = "finished"]
                           ELSE wstatus
    /\ UNCHANGED <<flags, posdur, mCurrentTrack, mRepeatMode, mQueue, mObservers,
                   mPlaybackThread, spawned, ends, budget, log>>

addObserverLocked(t) == MutexFree /\ addObserver(t)
removeObserverLocked(t) == MutexFree /\ removeObserver(t)

CallAddObserverReg ==
    /\ Len(mObservers) < MaxRegistered
    /\ \E h \in RegHandles : Invoke("addObserver", 181, h, 0)
CallRemoveObserverReg == \E h \in RegHandles : Invoke("removeObserver", 186, h, 0)

CommandReg ==
    \/ CallPlay \/ CallPause \/ CallResume \/ CallStop \/ CallNext
    \/ CallPrevious \/ CallSeek \/ CallEnqueue \/ CallClearQueue
    \/ CallSetRepeatMode \/ CallAddObserverReg \/ CallRemoveObserverReg
    \/ CallDestroy

StepReg(t) ==
    \/ play_58(t) \/ play_65(t) \/ play_66(t) \/ play_67(t) \/ play_68(t)
    \/ play_71(t) \/ play_75(t)
    \/ stop_96(t) \/ stop_97(t) \/ stop_98(t) \/ stop_99(t) \/ stop_101(t)
    \/ stop_105(t) \/ stop_106(t)
    \/ pause_82(t) \/ pause_83(t) \/ resume_89(t) \/ resume_90(t)
    \/ next(t) \/ previous(t) \/ seek_145(t)
    \/ enqueue(t) \/ clearQueue(t) \/ setRepeatMode(t) \/ dtor(t)
    \/ thread_238(t) \/ thread_240(t) \/ thread_246(t) \/ thread_247(t)
    \/ thread_251(t) \/ thread_252(t) \/ thread_254(t) \/ thread_261(t)
    \/ thread_263(t) \/ thread_267(t)
    \/ NotifyLock(t) \/ NotifyCallback(t) \/ NotifyUnlock(t)
    \/ addObserverLocked(t) \/ removeObserverLocked(t)

NextReg == CommandReg \/ \E t \in Threads : StepReg(t)

\* The player with its notifications taken observer by observer.
SpecReg == Init /\ [][NextReg]_vars

\* C20: every notification calls all registered observers exactly once each,
\* in registration order, and the registry cannot change during the
\* iteration: while a thread is inside a notify function mObservers does not
\* change, each callback it makes is that of the next registered observer,
\* and when it leaves the observers called are exactly mObservers.
C20_NotifyAllInOrder ==
    [][/\ (\E t \in Threads : Notifying(t)) => UNCHANGED mObservers
       /\ \A t \in Threads :
            /\ (Notifying(t) /\ Notifying(t)' /\ stack'[t] # stack[t]) =>
                 /\ Len(last.to) < Len(mObservers)
                 /\ last'.to = Append(last.to, mObservers[Len(last.to) + 1])
            /\ (Notifying(t) /\ ~Notifying(t)') => last.to = mObservers]_vars

\* The worker has called the registered observer and still holds
\* mObserverMutex while the caller waits for it in removeObserver.
C20_Witness ==
    \E w \in Workers :
        /\ Notifying(w)
        /\ mObservers = <<"h1">>
        /\ last.to = <<"h1">>
        /\ last.ev = "progress"
        /\ At(Caller, "removeObserver", 186)
        /\ Top(Caller).uri = "h1"

\* ------------------------------------------------- registering and removing
\* The number of entries of mObservers equal to the handle h.
Registrations(h) == Cardinality({i \in 1..Len(mObservers) : mObservers[i] = h})

\* C21: removeObserver(h) removes the first registered entry equal to h: a
\* removeObserver(h) that finds h registered twice leaves exactly one
\* registration of h, and the registrations of the other handles as they
\* were.
C21_RemovesFirstMatch ==
    [][\A h \in RegHandles :
         (/\ At(Caller, "removeObserver", 186)
          /\ StepOf(Caller)
          /\ Top(Caller).uri = h
          /\ Registrations(h) = 2)
         => /\ Registrations(h)' = 1
            /\ \A g \in RegHandles \ {h} : Registrations(g)' = Registrations(g)]_vars

\* C22: removeObserver(h) for a handle h that is not registered raises no
\* error and leaves the registry unchanged: the call returns in its one
\* step, nothing terminates, the registry, the player state and the
\* notifications made are as before; and every later notification still
\* calls exactly the registered observers, in their order.
C22_RemoveAbsentIsNoOp ==
    [][/\ (/\ At(Caller, "removeObserver", 186)
           /\ StepOf(Caller)
           /\ Registrations(Top(Caller).uri) = 0)
          => /\ stack'[Caller] = <<>>
             /\ crashed' = ""
             /\ UNCHANGED <<player, count, last>>
       /\ \A t \in Threads :
            (Notifying(t) /\ ~Notifying(t)' /\ pre[1] = "removeObserver")
              => last.to = mObservers]_vars

\* addObserver(h1), removeObserver(h2), seek: h1 is still registered and was
\* called with the playback-progress of the seek.
C22_Witness ==
    /\ Idle
    /\ pre = <<"removeObserver", "seek">>
    /\ opsLeft = MaxOps - 3
    /\ mObservers = <<"h1">>
    /\ last.ev = "progress"
    /\ last.to = <<"h1">>

\* The player is Stopped or Paused: no worker is meant to update the
\* position.
StoppedOrPaused == ~mIsPlaying \/ mIsPaused

\* C23: seek(p) sets the position to p and fires playback-progress(p,
\* duration) to every observer, in every state: the notification of seek
\* (line 146) carries p and the duration and calls every registered
\* observer; and when seek(p) is called and returns with the player Stopped
\* or Paused, the position it leaves is p.
C23_SeekSetsAndNotifies ==
    [][(StepOf(Caller) /\ At(Caller, "seek", 146)) =>
         /\ Fires("progress")
         /\ last'.pos = Top(Caller).n
         /\ last'.dur = mDuration
         /\ last'.to = mObservers
         /\ stack'[Caller] = <<>>
         /\ StoppedOrPaused => mCurrentPosition' = Top(Caller).n]_vars

\* ------------------------------------------------------------- the queue
\* What enqueue and clearQueue must leave alone.
besideQueue == <<mIsPlaying, mIsPaused, mShouldStop, mCurrentPosition, mDuration,
                 mCurrentTrack, mRepeatMode, mObservers, mPlaybackThread,
                 count, last, crashed>>

\* C24: the queue is FIFO.  enqueue(id), by the caller or by the worker,
\* appends id at the tail, duplicate or not, and changes nothing else;
\* clearQueue() leaves the queue empty and changes nothing else; next() takes
\* the head; and every change of the queue is the whole effect of one queue
\* operation of one thread on the content the operation before it left
\* (append, clear, pop of the head, or the replacement by play), so that
\* the content after any interleaving is that of the operations in the
\* order they took the queue's lock.
C24_QueueFifo ==
    [][\A t \in Threads :
         /\ (StepOf(t) /\ At(t, "enqueue", 150)) =>
              /\ mQueue' = Append(mQueue, Deref(Top(t).uri))
              /\ UNCHANGED besideQueue
         /\ (StepOf(t) /\ At(t, "clearQueue", 155)) =>
              /\ mQueue' = <<>>
              /\ UNCHANGED besideQueue
         /\ (StepOf(t) /\ At(t, "next", 124) /\ mQueue # <<>>) =>
              /\ mQueue' = Tail(mQueue)
              /\ PlayArgument(t)' = Head(mQueue)
         /\ (StepOf(t) /\ mQueue' # mQueue) =>
              /\ \A u \in Threads \ {t} : stack'[u] = stack[u]
              /\ \/ At(t, "enqueue", 150)
                 \/ At(t, "clearQueue", 155)
                 \/ At(t, "next", 124)
                 \/ At(t, "play", 58) /\ mQueue' = <<Deref(Top(t).uri)>>
                 \/ At(t, "dtor", 49) /\ mQueue' = <<>>]_vars

\* RepeatMode All: the caller's enqueue and the enqueue of the worker that
\* handles the completion have both been applied to the queue of the play,
\* the caller's first, and the entry of the play is now there twice.
C24_Witness ==
    \E w \in Workers :
        /\ Idle
        /\ pre[2] = "enqueue"
        /\ EntersNext(w)
        /\ mCurrentTrack = "a"
        /\ mQueue = <<"a", "b", "a">>

\* ------------------------------------------------- the command line (main.cpp)
\* SonoraApp::registerCommands binds a command word to a callback that gets
\* the remaining words of the line (CommandHandler::executeCommand).  The
\* callbacks run on the caller's thread, one line at a time.
RepeatTokens == {"none", "single", "all", "All", "on"}
RepeatArgs == {<<>>} \cup {<<w>> : w \in RepeatTokens}

\* Mutant: a parser that takes every other word for none.
ParseRepeatMode_DefaultNone(w) ==
    IF w = "single" THEN "Single"
    ELSE IF w = "all" THEN "All"
    ELSE "None"

\* The chain of comparisons of args[0] at lines 125-134; "" stands for the
\* last branch, which names no mode.
ParseRepeatMode(w) ==
    IF w = "none" THEN "None"
    ELSE IF w = "single" THEN "Single"
    ELSE IF w = "all" THEN "All"
    ELSE ""

\* The callback of cmd prints a message and returns without calling the
\* player.
Rejected(cmd) ==
    /\ Idle
    /\ opsLeft > 0
    /\ opsLeft' = opsLeft - 1
    /\ pre' = <<pre[2], cmd>>
    /\ UNCHANGED <<flags, posdur, mCurrentTrack, mRepeatMode, mQueue, mObservers,
                   threadvars, ends, log, stack>>

repeatCommand(args) ==      \* lines 118-138
    IF args = <<>> THEN Rejected("repeat")
    ELSE IF ParseRepeatMode(args[1]) = "" THEN Rejected("repeat")
    ELSE Invoke("setRepeatMode", 161, ParseRepeatMode(args[1]), 0)

playCommand(args) ==        \* lines 40-49
    IF args = <<>> THEN Rejected("play")
    ELSE Invoke("play", 54, args[1], 0)

enqueueCommand(args) ==     \* lines 98-108
    IF args = <<>> THEN Rejected("enqueue")
    ELSE Invoke("enqueue", 150, args[1], 0)

TrackArgs == {<<>>} \cup {<<u>> : u \in Tracks}

CommandLine ==
    \/ \E args \in TrackArgs : playCommand(args)
    \/ CallPause \/ CallResume \/ CallStop \/ CallNext
    \/ \E args \in TrackArgs : enqueueCommand(args)
    \/ CallClearQueue
    \/ \E args \in RepeatArgs : repeatCommand(args)

StepCli(t) ==
    \/ play(t) \/ stop(t) \/ pause(t) \/ resume(t) \/ next(t)
    \/ enqueue(t) \/ clearQueue(t) \/ setRepeatMode(t)
    \/ playbackThreadFunction(t)

NextCli == CommandLine \/ \E t \in Threads : StepCli(t)

\* The player driven by the lines of the command prompt.
SpecCli == Init /\ [][NextCli]_vars

\* The words after "repeat" name no repeat mode.
Unrecognized(args) == args = <<>> \/ args[1] \notin {"none", "single", "all"}

\* C25: the repeat command with an unrecognized mode word, or with no
\* argument, calls no player operation: the step the command line takes for
\* it enters no operation and leaves the repeat mode and every other state
\* of the player unchanged.
C25_InvalidRepeatRejected ==
    [][\A args \in RepeatArgs :
         (Unrecognized(args) /\ repeatCommand(args)) =>
            /\ stack' = stack
            /\ UNCHANGED <<player, wstatus, count, last, crashed>>]_vars

\* play a, repeat single, repeat with a word that names no mode: the mode is
\* still Single and the track still plays.
C25_Witness ==
    /\ Idle
    /\ pre = <<"setRepeatMode", "repeat">>
    /\ mRepeatMode = "Single"
    /\ mCurrentTrack = "a"
    /\ InPlayback(spawned)

\* ----------------------------------------- atomicity of state transitions
\* The lines at which an operation has tested the player state and has not
\* yet acted on the test: stop between its test of mIsPlaying (96) and its
\* write of it (98), pause and resume between test (82, 89) and write (83,
\* 90), next between the size test (116) and the pop (124).
TestedLines ==
    { <<"stop", 97>>, <<"stop", 98>>, <<"pause", 83>>, <<"resume", 90>>,
      <<"next", 124>> }

AfterTest(t) ==
    /\ crashed = ""
    /\ stack[t] # <<>>
    /\ <<Top(t).fn, Top(t).pc>> \in TestedLines

\* What the operation thread t is in has tested.
Tested(t) ==
    IF Top(t).fn = "stop" THEN <<mIsPlaying>>
    ELSE IF Top(t).fn = "next" THEN <<Len(mQueue) > 1>>
    ELSE <<mIsPlaying, mIsPaused>>

\* C26: the state transitions of the worker's completion handling and those
\* of the caller's commands are atomic relative to each other, so that every
\* interleaving has the outcome of one of the two orders: what a command of
\* the caller has tested is not changed by a worker that handles a
\* completion before the command has acted on it, and what the play, next
\* or stop of that worker has tested is not changed by the caller before it
\* has acted.
C26_TransitionsAtomic ==
    [][\A w \in Workers : Completing(w) =>
         /\ (AfterTest(Caller) /\ StepOf(w)) => Tested(Caller)' = Tested(Caller)
         /\ (AfterTest(w) /\ StepOf(Caller)) => Tested(w)' = Tested(w)]_vars

\* C27: a worker that applies the completion policy never waits for its own
\* termination: whenever a worker stands at a join of mPlaybackThread, in the
\* stop() (101) or the play() (71) that its completion handling reached, the
\* handle is not its own, so that the play or next it invoked can return and
\* the worker can terminate.
C27_NoSelfWait ==
    \A w \in Workers :
        (Completing(w) /\ (At(w, "stop", 101) \/ At(w, "play", 71)))
          => mPlaybackThread # w

\* ------------------------------------------------------------ scheduling
\* Every thread that can take a step eventually takes one: the operating
\* system schedules the caller and the workers fairly, and the clock
\* advances.
SpecLive == Init /\ [][Next]_vars /\ \A t \in Threads : WF_vars(Step(t))

\* C28: cancellation always completes.  Once a stop() of the caller has set
\* the stop signal (line 97), the worker, whatever it was doing, exits and
\* stop() returns.
C28_StopReturns ==
    (CallerIn("stop") /\ At(Caller, "stop", 98)) ~> (stack[Caller] = <<>>)

\* The operations of the caller that may start a notification of progress,
\* of a track change or of a start after a stop().
Restarting == {"play", "previous", "next", "seek"}

\* A stop() of the caller has returned and the caller has issued none of
\* the operations in Restarting since.
AfterStop ==
    \/ pre[2] = "stop" /\ stack[Caller] = <<>>
    \/ pre[1] = "stop" /\ pre[2] \notin Restarting

\* C29: a worker that leaves its loop because of the stop signal (the test
\* at line 251 fails) terminates in that step and notifies nothing; and
\* after a stop() of the caller has returned no playback-progress,
\* track-changed or playback-started is notified until the caller issues
\* another play, previous, next or seek.
C29_QuietAfterStop ==
    [][/\ \A w \in Workers :
            (StepOf(w) /\ At(w, Fn, 251) /\ ~(mIsPlaying /\ ~mShouldStop)) =>
               /\ UNCHANGED <<count, last>>
               /\ wstatus'[w] = "finished"
       /\ AfterStop =>
            /\ count'["progress"] = count["progress"]
            /\ count'["trackChanged"] = count["trackChanged"]
            /\ count'["started"] = count["started"]]_vars

\* play, stop, resume: the worker had notified progress and was joined by
\* the stop; the resume after it has returned and nothing was notified
\* after playback-stopped.
C29_Witness ==
    /\ Idle
    /\ pre = <<"stop", "resume">>
    /\ wstatus[1] = "joined"
    /\ count["progress"] = 1
    /\ count["started"] = 1
    /\ count["stopped"] = 1
    /\ last.ev = "stopped"

\* No thread is inside an operation: the caller is between two calls and no
\* worker is running.
Quiescent == Idle /\ \A w \in Workers : ~Running(w)

\* C30: the playback state is exactly one of Stopped, Playing, Paused, and
\* paused is set only if playing is set: whenever no operation is in
\* progress, in particular after an open failure or after a completion the
\* worker handled, mIsPaused implies mIsPlaying.
C30_PausedOnlyIfPlaying == Quiescent => (mIsPaused => mIsPlaying)

\* --------------------------------------------------- seeking inside a track
\* Positions strictly inside the track, for seek.
MidPositions == {Duration \div 2}

CallSeekMid == \E p \in MidPositions : Invoke("seek", 145, "", p)

NextSeek == Next \/ CallSeekMid

\* The player with seeks to the middle of the track as well.
SpecSeek == Init /\ [][NextSeek]_vars

\* C31: while the state is Playing and the track has not reached its end,
\* the position never decreases and is never negative: in every step taken
\* while a worker is polling its track, with the state Playing and the
\* position below the duration before and after, the position after the
\* step is at least the position before it, and at least 0.
C31_PositionMonotonic ==
    [][(/\ \E w \in Workers : InLoop(w) /\ InLoop(w)'
        /\ isPlaying /\ isPlaying'
        /\ mCurrentPosition < mDuration
        /\ mCurrentPosition' < mDuration')
       => /\ mCurrentPosition' >= mCurrentPosition
          /\ mCurrentPosition' >= 0]_vars

\* The caller's next() has taken an entry from the queue and is in the
\* play() it called with it (line 131); the entry is in the uri of the
\* frame of next().
NextPlaying ==
    /\ CallerIn("next")
    /\ Len(stack[Caller]) >= 2
    /\ stack[Caller][Len(stack[Caller]) - 1].fn = "play"

\* What next() does with a queue of two or more entries, up to its return:
\* it removes exactly the head h and calls play(h), which notifies
\* track-changed(h).
NextTakesHead ==
    /\ (At(Caller, "next", 124) /\ StepOf(Caller) /\ Len(mQueue) >= 2) =>
         /\ mQueue' = Tail(mQueue)
         /\ NextPlaying'
         /\ Bottom(Caller)'.uri = Head(mQueue)
         /\ PlayArgument(Caller)' = Head(mQueue)
    /\ (NextPlaying /\ At(Caller, "play", 77) /\ StepOf(Caller)) =>
         /\ Fires("trackChanged")
         /\ last'.uri = Bottom(Caller).uri

C33_CallbacksSerialized ==
    \A t \in Threads : Notifying(t) =>
        /\ \A u \in Threads : Notifying(u) => u = t
        /\ last.by = t
        /\ last.ev = Top(t).uri
        /\ last.to = SubSeq(mObservers, 1, Top(t).n - 1)

\* The caller has notified the registered observer of an event and still
\* holds mObserverMutex; the worker stands at its progress notification and
\* waits for it.
C33_Witness ==
    \E w \in Workers :
        /\ Notifying(Caller)
        /\ mObservers # <<>>
        /\ last.to = mObservers
        /\ last.by = Caller
        /\ At(w, Fn, 258)

\* The state is Paused and the pause() that made it so has returned; the
\* caller has called nothing since.
PausedAtRest ==
    /\ Idle
    /\ pre[2] = "pause"
    /\ mIsPlaying /\ mIsPaused

\* C34: while the state is Paused the worker changes nothing: no step of a
\* worker taken in that state writes the position, notifies anything or
\* enters the completion handling.
C34_PausedWorkerChangesNothing ==
    [][\A w \in Workers :
         (PausedAtRest /\ StepOf(w)) =>
            /\ mCurrentPosition' = mCurrentPosition
            /\ count' = count
            /\ Completing(w)' => Completing(w)]_vars

\* C35: the destructor leaves no unjoined worker: the thread handle is never
\* destroyed while joinable, and when the destructor destroys the members
\* (line 50) every worker that was started has terminated and has been
\* joined.
C35_DestructorJoins ==
    [][CallerIn("dtor") =>
         /\ crashed' # "destroy_joinable"
         /\ (destroyed' /\ ~destroyed) =>
              /\ mPlaybackThread = 0
              /\ \A w \in Workers : wstatus[w] \in {"unborn", "joined"}]_vars

====
